---- MODULE Spec2Model ----
(***************************************************************************)
(* Barry: the tabulated cosmology generator (barry/cosmology/              *)
(* camb_generator.py).  A CambGenerator owns a table of CAMB outputs over  *)
(* an omch2 x h0 grid, persisted in one .npy file per fingerprint          *)
(* (filename_unique), and answers get_data queries by bilinear             *)
(* interpolation.                                                          *)
(*                                                                         *)
(* Numbers.  Python floats are modelled as exact rationals, held as        *)
(* integers in fixed units (float rounding is outside the model):          *)
(*   redshift, ns   in units of 1/10000                                    *)
(*   om, ob         in units of 1/100000                                   *)
(*   h0             in units of 1/10                                       *)
(*   omch2          in units of 1/10000000  (= om unit * h0 unit squared)  *)
(* An interpolated vector is held as numerators num over one common        *)
(* denominator den.  Tables are 1-based sequences; At reads them with the  *)
(* program's 0-based, wrap-around indices.                                 *)
(***************************************************************************)
EXTENDS Integers, Sequences, FiniteSets, TLC

(* ------------------------------ bounds --------------------------------- *)

\* number of wavenumber samples (self.k_num is 2000 in the program)
KNum == 1

\* capacity of the get_data memo (maxsize is 512 in the program)
MemoSize == 1

\* the generator instances of one process
Gens == {"g1", "g2"}

(* ------------------------- construction arguments ---------------------- *)

\* The argument tuples generators are constructed with in Spec: a 2 x 2 grid,
\* and two values of ob less than 1/10000 apart.
Configs ==
    { [redshift |-> 5100, om_resolution |-> 2, h0_resolution |-> 2, h0 |-> 7, ob |-> 4814, ns |-> 9700],
      [redshift |-> 5100, om_resolution |-> 2, h0_resolution |-> 2, h0 |-> 7, ob |-> 4819, ns |-> 9700] }

\* The argument tuples of SpecInit: every field takes two values that agree
\* in the digits filename_unique keeps, or (the resolutions, h0) two values
ArgTuples ==
    [ redshift : {5100, 5105}, om_resolution : {2, 3}, h0_resolution : {1, 2},
      h0 : {6, 7}, ob : {4814, 4819}, ns : {9700, 9705} ]

\* The generators of SpecInterp: the default 1-point h0 grid and 2-D grids
InterpConfigs ==
    { [redshift |-> 5100, om_resolution |-> 3, h0_resolution |-> 1, h0 |-> 7, ob |-> 4814, ns |-> 9700],
      [redshift |-> 5100, om_resolution |-> 2, h0_resolution |-> 2, h0 |-> 7, ob |-> 4814, ns |-> 9700],
      [redshift |-> 5100, om_resolution |-> 3, h0_resolution |-> 3, h0 |-> 7, ob |-> 4814, ns |-> 9700] }

\* the fields of an instance that has not been constructed
NoParams == [redshift |-> 0, om_resolution |-> 0, h0_resolution |-> 0, h0 |-> 0, ob |-> 0, ns |-> 0]

\* self.data = None
NoData == <<>>

(* ------------------------------ __init__ ------------------------------- *)

\* int(x * mult) for x >= 0 held in units of 1/unit
IntScaled(x, mult, unit) == (x * mult) \div unit

\* self.filename_unique: the six integers the f-string joins with "_"
\* (decimal integers joined by "_" are told apart exactly as the tuple is)
filename_unique(p) ==
    << IntScaled(p.redshift, 1000, 10000),
       p.om_resolution,
       p.h0_resolution,
       IntScaled(p.h0, 10000, 10),
       IntScaled(p.ob, 10000, 100000),
       IntScaled(p.ns, 1000, 10000) >>

\* self.filename = data_dir + "cosmo_<filename_unique>.npy"
filename(p) == <<"cosmo", filename_unique(p)>>

\* np.linspace(0.05, 0.3, om_resolution)[i], in omch2 units
omch2s(p, i) == 500000 + (i * 2500000) \div (p.om_resolution - 1)

\* self.h0s[j]: [h0] when h0_resolution is 1, else np.linspace(0.6, 0.8, h0_resolution)[j]
h0s(p, j) ==
    IF p.h0_resolution = 1 THEN p.h0
    ELSE 6 + (j * 2) \div (p.h0_resolution - 1)

(* ------------------------- the CAMB collaborator ----------------------- *)

\* what pars.set_cosmology / set_matter_power hand to CAMB for cell (i, j)
CambPars(p, i, j) ==
    [ H0 |-> h0s(p, j) * 100,
      omch2 |-> omch2s(p, i),
      ombh2 |-> p.ob * h0s(p, j) * h0s(p, j),
      ns |-> p.ns,
      redshift |-> p.redshift ]

\* results.get_derived_params()["rdrag"]: a positive number fixed by the cosmology
CambRdrag(c) == 100 + ((c.omch2 \div 125000 + c.H0 \div 100 + c.ombh2) % 37)

\* results.get_matter_power_spectrum(...)[2]: one row per redshift, ascending
\* (row 1: z = 0.0001, row 2: z = self.redshift), KNum values per row, positive
CambPk(c, nonlinear) ==
    [ zrow \in 1..2 |->
        [ k \in 1..KNum |->
            1 + ((CambRdrag(c) + 11 * zrow + 5 * k + (IF nonlinear THEN 3 ELSE 0)) % 41) ] ]

\* the two values pars.NonLinear takes: camb.model.NonLinear_none, NonLinear_pk
NonLinear_none == "NonLinear_none"
NonLinear_pk == "NonLinear_pk"

\* the flag left as the previous cell's second pass set it
SetLinearKept(flag) == flag

\* pars.NonLinear = camb.model.NonLinear_none, before camb.get_results
SetLinear(flag) == NonLinear_none

\* pars.NonLinear = camb.model.NonLinear_pk, before calc_power_spectra
SetNonLinear(flag) == NonLinear_pk

(* ------------------------------- tables -------------------------------- *)

\* channels per cell: 1 + 3 * self.k_num
NChannels == 1 + 3 * KNum

\* np.zeros((om_resolution, h0_resolution, 1 + 3 * k_num))
Zeros(p) ==
    [ i \in 1..p.om_resolution |->
        [ j \in 1..p.h0_resolution |-> [ k \in 1..NChannels |-> 0 ] ] ]

\* pk_nonlin.flatten(): the rows one after the other
Flatten(pk) == pk[1] \o pk[2]

\* data[i, j, 0] = rdrag; data[i, j, 1:1+k_num] = pk_lin[1, :];
\* data[i, j, 1+k_num:] = pk_nonlin.flatten()
CellOf(rdrag, pk_lin, pk_nonlin) == <<rdrag>> \o pk_lin[2] \o Flatten(pk_nonlin)

\* the table with cell (i, j) assigned
WithCell(t, i, j, cell) == [t EXCEPT ![i + 1][j + 1] = cell]

\* the loops stopping one cell short
CellOrderShort(p) ==
    [ n \in 1..(p.om_resolution * p.h0_resolution - 1) |->
        << (n - 1) \div p.h0_resolution, (n - 1) % p.h0_resolution >> ]

\* the order in which the two for-loops visit the cells
CellOrder(p) ==
    [ n \in 1..(p.om_resolution * p.h0_resolution) |->
        << (n - 1) \div p.h0_resolution, (n - 1) % p.h0_resolution >> ]

\* a cell no pass has assigned still holds the zeros it was created with
Filled(t) ==
    \A i \in 1..Len(t) : \A j \in 1..Len(t[i]) : \A k \in 1..Len(t[i][j]) : t[i][j][k] # 0

\* the table a complete, failure-free _generate_data run computes for p
RECURSIVE FillFrom(_, _, _)
FillFrom(p, t, n) ==
    IF n > Len(CellOrder(p)) THEN t
    ELSE LET i == CellOrder(p)[n][1]
             j == CellOrder(p)[n][2]
             c == CambPars(p, i, j)
         IN  FillFrom(p, WithCell(t, i, j, CellOf(CambRdrag(c), CambPk(c, FALSE), CambPk(c, TRUE))), n + 1)

GeneratedTable(p) == FillFrom(p, Zeros(p), 1)

(* ----------------------------- _interpolate ---------------------------- *)

\* 1.0 * (om_resolution - 1) * (omch2 - omch2s[0]) / (omch2s[-1] - omch2s[0]),
\* as the fraction num / den with den > 0
omch2_index(p, omch2) ==
    [ num |-> (p.om_resolution - 1) * (omch2 - omch2s(p, 0)),
      den |-> omch2s(p, p.om_resolution - 1) - omch2s(p, 0) ]

\* the h0 offset taken as the index whatever the resolution
h0_index_unguarded(p, h0) == [num |-> h0 - h0s(p, 0), den |-> 1]

\* 0 when h0_resolution is 1, else
\* 1.0 * (h0_resolution - 1) * (h0 - h0s[0]) / (h0s[-1] - h0s[0])
h0_index(p, h0) ==
    IF p.h0_resolution = 1 THEN [num |-> 0, den |-> 1]
    ELSE [ num |-> (p.h0_resolution - 1) * (h0 - h0s(p, 0)),
           den |-> h0s(p, p.h0_resolution - 1) - h0s(p, 0) ]

\* int(np.floor(q)) and int(np.ceil(q))
Floor(q) == q.num \div q.den
CeilAsFloorPlusOne(q) == (q.num \div q.den) + 1
Ceil(q) == -((-q.num) \div q.den)

\* q - np.floor(q), as a numerator over q.den
Frac(q) == q.num - Floor(q) * q.den

\* indexing an axis of length n with idx: numpy accepts -n .. n-1 and raises
\* IndexError outside; a negative index counts from the end
IndexOk(n, idx) == -n <= idx /\ idx <= n - 1
Wrap(n, idx) == IF idx < 0 THEN idx + n ELSE idx

\* data[i, j]
At(t, i, j) == t[Wrap(Len(t), i) + 1][Wrap(Len(t[1]), j) + 1]

\* the (i, j) index pairs _interpolate reads, in the order it reads them
Reads(p, omch2, h0) ==
    LET oi == omch2_index(p, omch2)
        hi == h0_index(p, h0)
    IN  << <<Floor(oi), Floor(hi)>>, <<Ceil(oi), Floor(hi)>> >>
        \o (IF p.h0_resolution = 1 THEN <<>>
            ELSE << <<Floor(oi), Ceil(hi)>>, <<Ceil(oi), Ceil(hi)>> >>)

\* some read of _interpolate raises IndexError
InterpolateRaises(p, t, omch2, h0) ==
    \E n \in 1..Len(Reads(p, omch2, h0)) :
        \/ ~IndexOk(Len(t), Reads(p, omch2, h0)[n][1])
        \/ ~IndexOk(Len(t[1]), Reads(p, omch2, h0)[n][2])

\* final = v1*(1-x)*(1-y) + v2*x*(1-y) [+ v3*y*(1-x) + v4*x*y]:
\* the numerators over the common denominator den
_interpolate(p, t, omch2, h0) ==
    LET oi == omch2_index(p, omch2)
        hi == h0_index(p, h0)
        x == Frac(oi)
        y == Frac(hi)
        dx == oi.den
        dy == hi.den
        v1 == At(t, Floor(oi), Floor(hi))
        v2 == At(t, Ceil(oi), Floor(hi))
    IN  [ den |-> dx * dy,
          num |->
            IF p.h0_resolution = 1
            THEN [ k \in 1..Len(v1) |->
                     v1[k] * (dx - x) * (dy - y) + v2[k] * x * (dy - y) ]
            ELSE LET v3 == At(t, Floor(oi), Ceil(hi))
                     v4 == At(t, Ceil(oi), Ceil(hi))
                 IN  [ k \in 1..Len(v1) |->
                         v1[k] * (dx - x) * (dy - y) + v2[k] * x * (dy - y)
                         + v3[k] * y * (dx - x) + v4[k] * x * y ] ]

(* ------------------------------- get_data ------------------------------ *)

\* h0=None in a get_data call
NoneH0 == 0

\* the arguments get_data is called with: om in units of 1/100000, h0 in tenths
OmArgs == {31000, 70000}
H0Args == {NoneH0, 9}

\* the arguments _interpolate is called with directly
Omch2Args == {-3500000, 250000, 500000, 1125000, 1750000, 3000000, 3100000}
H0Values == {5, 6, 7, 8, 9}

\* if h0 is None: h0 = self.h0
H0OrDefault(p, h0) == IF h0 = NoneH0 THEN p.h0 ELSE h0

\* omch2 = (om - self.omega_b) * h0 * h0
Omch2Of(p, om, h0) == (om - p.ob) * h0 * h0

\* the third slice starting where the linear values end
SlicesAfterLinear(v) ==
    [ rs |-> v[1],
      lin |-> SubSeq(v, 2, 1 + KNum),
      nl |-> SubSeq(v, 2 + KNum, Len(v)) ]

\* return data[0], data[1 : 1 + self.k_num], data[1 + 2 * self.k_num :]
Slices(v) ==
    [ rs |-> v[1],
      lin |-> SubSeq(v, 2, 1 + KNum),
      nl |-> SubSeq(v, 2 + 2 * KNum, Len(v)) ]

\* what a call leaves behind: its two arguments, its outcome ("ok" or the
\* exception raised), what it returned (den = 0: nothing) and how many times
\* it entered _interpolate (ran)
Ret(op, g, args, outcome) ==
    [ op |-> op, gen |-> g, args |-> args, outcome |-> outcome,
      den |-> 0, vec |-> <<>>, rs |-> 0, lin |-> <<>>, nl |-> <<>>, ran |-> 0 ]

\* load_data's argument can_generate, as the first of two arguments
Flag(can_generate) == << IF can_generate THEN 1 ELSE 0, 0 >>

\* the body of get_data after the table t is in memory
get_data_body(p, g, t, om, h0) ==
    LET hv == H0OrDefault(p, h0)
        omch2 == Omch2Of(p, om, hv)
    IN  IF InterpolateRaises(p, t, omch2, hv)
        THEN [ Ret("get_data", g, <<om, h0>>, "IndexError") EXCEPT !.ran = 1 ]
        ELSE LET f == _interpolate(p, t, omch2, hv)
                 r == Slices(f.num)
             IN  [ Ret("get_data", g, <<om, h0>>, "ok") EXCEPT
                     !.den = f.den, !.rs = r.rs, !.lin = r.lin, !.nl = r.nl, !.ran = 1 ]

(* ------------------------ functools.lru_cache -------------------------- *)

\* the position of key in the memo, 0 when it is not there
RECURSIVE MemoPos(_, _, _)
MemoPos(m, key, n) ==
    IF n > Len(m) THEN 0
    ELSE IF m[n].key = key THEN n
    ELSE MemoPos(m, key, n + 1)

\* the memo without its entry at position n
MemoDrop(m, n) == SubSeq(m, 1, n - 1) \o SubSeq(m, n + 1, Len(m))

\* a hit moves the entry to the most-recently-used end
MemoTouch(m, n) == Append(MemoDrop(m, n), m[n])

\* a call that raised stored as well
MemoStoreFailures(m, key, r) ==
    IF Len(m) >= MemoSize THEN Append(Tail(m), [key |-> key, val |-> r])
    ELSE Append(m, [key |-> key, val |-> r])

\* nothing ever evicted
MemoStoreUnbounded(m, key, r) ==
    IF r.outcome # "ok" THEN m
    ELSE Append(m, [key |-> key, val |-> r])

\* a miss that returned r is stored; at capacity the least recently used
\* entry (the first) is evicted.  A call that raised stores nothing.
MemoStore(m, key, r) ==
    IF r.outcome # "ok" THEN m
    ELSE IF Len(m) >= MemoSize THEN Append(Tail(m), [key |-> key, val |-> r])
    ELSE Append(m, [key |-> key, val |-> r])

(* ------------------------------- the files ----------------------------- *)

\* the directory left as it was
makedirs_skipped(exists) == exists

\* os.makedirs(self.data_dir, exist_ok=True): the directory exists afterwards
makedirs(exists) == TRUE

\* the save left out
np_save_skipped(f, fn, t) == f

\* np.save(self.filename, data)
np_save(f, fn, t) == [ n \in DOMAIN f \cup {fn} |-> IF n = fn THEN t ELSE f[n] ]

\* np.load(self.filename)
np_load(f, fn) == f[fn]

\* the existence test always failing
path_exists_never(f, fn) == FALSE

\* os.path.exists(self.filename)
path_exists(f, fn) == fn \in DOMAIN f

\* generation on every miss
MayGenerateAlways(can_generate) == TRUE

\* load_data generates on a miss only when can_generate is set
MayGenerate(can_generate) == can_generate

\* get_data asking for generation
get_data_regenerates == TRUE

\* get_data calls self.load_data(): can_generate keeps its default, False
get_data_can_generate == FALSE

(* --------------------------- getCambGenerator -------------------------- *)

\* lru_cache(maxsize=32) on getCambGenerator, scaled
FactorySize == 1

\* a keyword argument the call does not pass
NotPassed == -1

\* def getCambGenerator(redshift=0.51, om_resolution=101, h0_resolution=1,
\* h0=0.676, ob=0.04814, ns=0.97); h0 to the nearest tenth, the model's unit
DefaultArgs ==
    [ redshift |-> 5100, om_resolution |-> 101, h0_resolution |-> 1,
      h0 |-> 7, ob |-> 4814, ns |-> 9700 ]

\* the calls made: each keyword argument passed with a value, or not passed
Calls ==
    [ redshift : {NotPassed, 5100}, om_resolution : {NotPassed}, h0_resolution : {NotPassed},
      h0 : {NotPassed, 7}, ob : {NotPassed, 4814, 4819}, ns : {NotPassed} ]

\* the construction arguments a call denotes: defaults for what it does not pass
Resolve(call) ==
    [ f \in DOMAIN call |-> IF call[f] = NotPassed THEN DefaultArgs[f] ELSE call[f] ]

\* a cache keyed by the arguments after the defaults are filled in
FactoryKeyResolved(call) == Resolve(call)

\* lru_cache builds its key from the arguments as the call passes them
FactoryKey(call) == call

\* a new instance is stored; at capacity the least recently used entry goes
FactoryStore(f, key, g) ==
    Append(IF Len(f) >= FactorySize THEN Tail(f) ELSE f, [key |-> key, gen |-> g])

(* -------------------------- CorrelationPolynomial ---------------------- *)

\* how many set_data calls one model receives
MaxSetData == 3

\* lru_cache(maxsize=1024) on compute_basic_power_spectrum, scaled
SpectrumMemoSize == 1

\* the smooth_type arguments tried: two spellings of a known method, one unknown
SmoothTypes == {"hinton2017", "Hinton2017", "spline"}

\* the fix_params arguments tried
FixParamsArgs == { {"om"}, {} }

\* smooth_type.lower()
Lower(name) == IF name = "Hinton2017" THEN "hinton2017" ELSE name

\* the method names the smoothing collaborator knows
RecognizedSmooth == {"hinton2017", "eh1998"}

\* validate_smooth_method(smooth_type): whether the name is a known method
validate_smooth_method(name) == Lower(name) \in RecognizedSmooth

\* the status the constructor passes to exit
ExitStatus == 0

\* the process before and after exit(status): SystemExit reaches the top level
Running == [done |-> FALSE, status |-> 0]
sys_exit(status) == [done |-> TRUE, status |-> status]

\* declare_parameters: om, alpha, b
DeclaredParams == {"om", "alpha", "b"}

\* data[0]["cosmology"] of the datasets given to set_data
Cosmologies ==
    [ om : {31000}, h0 : {7}, ob : {4814, 4819}, z : {5100, 6100}, ns : {9600, 9700},
      reconsmoothscale : {15} ]

\* self.cosmology = None
NoCosmology == [ om |-> 0, h0 |-> 0, ob |-> 0, z |-> 0, ns |-> 0, reconsmoothscale |-> 0 ]

\* getCambGeneratorAndPT(h0, ob, redshift, ns, smooth_type, recon_smoothing_scale):
\* the generator and the PT data of those arguments
CambFor(c) == <<c.h0, c.ob, c.z, c.ns>>
PTFor(c, smooth_type, scale) == <<c.h0, c.ob, c.z, c.ns, smooth_type, scale>>

\* the CambGenerator that getCambGeneratorAndPT returns as camb: its fields,
\* on a grid of two omch2 nodes
CambParams(camb) ==
    [ redshift |-> camb[3], om_resolution |-> 2, h0_resolution |-> 1,
      h0 |-> camb[1], ob |-> camb[2], ns |-> camb[4] ]

\* self.camb.get_data(om=om, h0=self.camb.h0) once the table is in memory:
\* the tuple get_data returns
camb_get_data(camb, om) ==
    LET p == CambParams(camb)
        r == get_data_body(p, "g1", GeneratedTable(p), om, p.h0)
    IN  <<r.rs, r.lin, r.nl>>

\* the om arguments compute_basic_power_spectrum is called with
SpectrumOmArgs == {31000, 35000}

\* the number of names on the left of `r_s, pk_lin = ...`
UnpackTargets == 2

\* smooth(ks, pk_lin, method, om, h0): a spectrum of the same length
power_spectrum_smooth(pk_lin, method, om) == [ k \in 1..Len(pk_lin) |-> pk_lin[k] + 1 ]

\* return pk_smooth_lin, pk_ratio, with pk_ratio = pk_lin / pk_smooth_lin - 1
\* kept as the pair of numerator and denominator
BasicSpectrum(pk_lin, method, om) ==
    LET pk_smooth_lin == power_spectrum_smooth(pk_lin, method, om)
    IN  << pk_smooth_lin,
           [ k \in 1..Len(pk_lin) |-> << pk_lin[k] - pk_smooth_lin[k], pk_smooth_lin[k] >> ] >>

\* the model object before and after __init__; camb, PT = <<>> and pk2xi = 0
\* for None, pk2xi otherwise the serial number of the transform object;
\* calls and fetches count the set_data calls and the calls of
\* getCambGeneratorAndPT; spectra is compute_basic_power_spectrum's lru_cache
NoModel ==
    [ exists |-> FALSE, smooth_type |-> "", smooth |-> FALSE,
      params |-> {}, fixed |-> {},
      camb |-> <<>>, PT |-> <<>>, pk2xi |-> 0, recon_smoothing_scale |-> 0,
      cosmology |-> NoCosmology, data |-> NoCosmology, om_default |-> 0,
      exit |-> Running, calls |-> 0, fetches |-> 0,
      spectra |-> <<>> ]

(* -------------------------- write_jobscript_slurm ---------------------- *)

\* the largest num_tasks tried
MaxTasks == 2

\* strings as sequences of characters
DotPy == <<".", "p", "y">>
DotQ == <<".", "q">>

\* os.path.basename(filename) of the scripts submitted: "f.py", "f.pyx.py", "f"
Executables ==
    { <<"f", ".", "p", "y">>,
      <<"f", ".", "p", "y", "x", ".", "p", "y">>,
      <<"f">> }

\* the 0-based positions at which sub occurs in str
Occurrences(str, sub) ==
    { i \in 0..(Len(str) - Len(sub)) : SubSeq(str, i + 1, i + Len(sub)) = sub }

\* str.index(sub) raises ValueError when sub does not occur
IndexRaises(str, sub) == Occurrences(str, sub) = {}

\* str.index(sub): the first position at which sub occurs
Index(str, sub) ==
    CHOOSE i \in Occurrences(str, sub) : \A k \in Occurrences(str, sub) : i <= k

\* executable[: executable.index(".py")]
UpToDotPy(executable) == SubSeq(executable, 1, Index(executable, DotPy))

\* name = executable[:-3]
DropLast3(executable) == SubSeq(executable, 1, Len(executable) - 3)

\* an absent directory, and os.makedirs(output_dir): an empty one
NoDir == [exists |-> FALSE, files |-> {}]
EmptyDir == [exists |-> TRUE, files |-> {}]

\* the template with its fields filled in: #SBATCH -J, --array=1-{num_tasks},
\* PARAMS=`expr ${SLURM_ARRAY_TASK_ID} - 1`, PROG
Template(name, executable, num_tasks) ==
    [ name |-> name, array |-> 1..num_tasks, minus |-> 1, prog |-> executable ]

\* the PARAMS values the array tasks of a script are started with
TaskParams(script) == { t - script.minus : t \in script.array }

\* the call that has not been made
NoCall == [executable |-> <<>>, num_tasks |-> 0, delete |-> FALSE]

(* -------------------------------- state -------------------------------- *)

VARIABLES
    constructed,  \* the generator instances that exist
    params,       \* per instance: the construction arguments (the self.* fields)
    data,         \* per instance: self.data, NoData for None
    dirExists,    \* whether self.data_dir exists
    fs,           \* the cache files: file name -> persisted table
    pc,           \* where the one thread of control is: "idle" between calls,
                  \* "linear" / "nonlinear" / "save" inside _generate_data
    cur,          \* the call in progress: instance, entry point, cell counter, arguments
    work,         \* _generate_data's local array `data`
    loc,          \* _generate_data's locals rdrag and pk_lin between the two passes,
                  \* and pars.NonLinear
    solverLog,    \* the CAMB passes made by the current or last call: <<i, j, NonLinear>>
    memo,         \* get_data's lru_cache, least recently used first
    last,         \* the last call that returned or raised
    factory,      \* getCambGenerator's lru_cache, least recently used first
    model,        \* the CorrelationPolynomial object and the process's exit
    job           \* the script's directory: job_files, out_files, and the last
                  \* write_jobscript_slurm call with out_files as it found it

vars == <<constructed, params, data, dirExists, fs, pc, cur, work, loc, solverLog, memo, last,
          factory, model, job>>

NoCur == [gen |-> "none", caller |-> "none", can_generate |-> FALSE, n |-> 0, om |-> 0, h0 |-> 0]
NoLoc == [rdrag |-> 0, pk_lin |-> <<>>, NonLinear |-> NonLinear_none]
NoFiles == [n \in {} |-> NoData]
NoJob ==
    [ q_dir |-> FALSE, scripts |-> {}, out |-> NoDir,
      call |-> NoCall, before |-> NoDir, outcome |-> "none", ret |-> <<>> ]

Init ==
    /\ constructed = {}
    /\ params = [g \in Gens |-> NoParams]
    /\ data = [g \in Gens |-> NoData]
    /\ dirExists \in BOOLEAN
    /\ fs = NoFiles
    /\ pc = "idle"
    /\ cur = NoCur
    /\ work = NoData
    /\ loc = NoLoc
    /\ solverLog = <<>>
    /\ memo = <<>>
    /\ last = Ret("none", "none", <<0, 0>>, "ok")
    /\ factory = <<>>
    /\ model = NoModel
    /\ job = NoJob

(* ------------------------------- __init__ ------------------------------ *)

\* a constructor that loads the cache file when there is one
ConstructEager(g, p) ==
    /\ pc = "idle"
    /\ g \notin constructed
    /\ constructed' = constructed \cup {g}
    /\ params' = [params EXCEPT ![g] = p]
    /\ data' = [data EXCEPT ![g] = IF path_exists(fs, filename(p)) THEN np_load(fs, filename(p)) ELSE NoData]
    /\ solverLog' = <<>>
    /\ last' = Ret("__init__", g, <<0, 0>>, "ok")
    /\ UNCHANGED <<dirExists, fs, pc, cur, work, loc, memo, factory, model, job>>

\* CambGenerator(redshift, om_resolution, h0_resolution, h0, ob, ns):
\* self.data = None, nothing read, written or solved
Construct(g, p) ==
    /\ pc = "idle"
    /\ g \notin constructed
    /\ constructed' = constructed \cup {g}
    /\ params' = [params EXCEPT ![g] = p]
    /\ data' = [data EXCEPT ![g] = NoData]
    /\ solverLog' = <<>>
    /\ last' = Ret("__init__", g, <<0, 0>>, "ok")
    /\ UNCHANGED <<dirExists, fs, pc, cur, work, loc, memo, factory, model, job>>

(* --------------------------- _generate_data ---------------------------- *)

\* entering _generate_data: os.makedirs(data_dir, exist_ok=True), data = np.zeros(...)
BeginGenerate(g, caller, can_generate, om, h0) ==
    /\ pc' = "linear"
    /\ cur' = [gen |-> g, caller |-> caller, can_generate |-> can_generate, n |-> 1, om |-> om, h0 |-> h0]
    /\ dirExists' = makedirs(dirExists)
    /\ work' = Zeros(params[g])
    /\ solverLog' = <<>>
    /\ last' = Ret("none", "none", <<0, 0>>, "ok")
    /\ UNCHANGED <<constructed, params, data, fs, loc, memo, factory, model, job>>

\* first half of the loop body: set_cosmology, NonLinear_none, camb.get_results,
\* rdrag and pk_lin
camb_linear ==
    /\ pc = "linear"
    /\ LET p == params[cur.gen]
           ij == CellOrder(p)[cur.n]
           c == CambPars(p, ij[1], ij[2])
           flag == SetLinear(loc.NonLinear)
       IN  /\ solverLog' = Append(solverLog, <<ij[1], ij[2], flag>>)
           /\ loc' = [rdrag |-> CambRdrag(c), pk_lin |-> CambPk(c, flag = NonLinear_pk),
                      NonLinear |-> flag]
    /\ pc' = "nonlinear"
    /\ UNCHANGED <<constructed, params, data, dirExists, fs, cur, work, memo, last, factory, model, job>>

\* second half of the loop body: NonLinear_pk, calc_power_spectra, pk_nonlin,
\* the three assignments into data[i, j]; then the next cell, or out of the loops
camb_nonlinear ==
    /\ pc = "nonlinear"
    /\ LET p == params[cur.gen]
           ij == CellOrder(p)[cur.n]
           c == CambPars(p, ij[1], ij[2])
           flag == SetNonLinear(loc.NonLinear)
       IN  /\ solverLog' = Append(solverLog, <<ij[1], ij[2], flag>>)
           /\ work' = WithCell(work, ij[1], ij[2],
                               CellOf(loc.rdrag, loc.pk_lin, CambPk(c, flag = NonLinear_pk)))
           /\ IF cur.n < Len(CellOrder(p))
              THEN /\ pc' = "linear"
                   /\ cur' = [cur EXCEPT !.n = cur.n + 1]
                   /\ loc' = [NoLoc EXCEPT !.NonLinear = flag]
              ELSE /\ pc' = "save"
                   /\ cur' = cur
                   /\ loc' = NoLoc
    /\ UNCHANGED <<constructed, params, data, dirExists, fs, memo, last, factory, model, job>>

\* the exception leaving through a handler that saves the cells solved so far
camb_fails_saves ==
    /\ pc \in {"linear", "nonlinear"}
    /\ pc' = "idle"
    /\ last' = Ret(cur.caller, cur.gen, IF cur.caller = "get_data" THEN <<cur.om, cur.h0>> ELSE Flag(cur.can_generate), "CAMBError")
    /\ fs' = np_save(fs, filename(params[cur.gen]), work)
    /\ cur' = NoCur
    /\ work' = NoData
    /\ loc' = NoLoc
    /\ UNCHANGED <<constructed, params, data, dirExists, solverLog, memo, factory, model, job>>

\* CAMB raises in either pass: nothing catches it, the call ends with the exception
camb_fails ==
    /\ pc \in {"linear", "nonlinear"}
    /\ pc' = "idle"
    /\ last' = Ret(cur.caller, cur.gen, IF cur.caller = "get_data" THEN <<cur.om, cur.h0>> ELSE Flag(cur.can_generate), "CAMBError")
    /\ cur' = NoCur
    /\ work' = NoData
    /\ loc' = NoLoc
    /\ UNCHANGED <<constructed, params, data, dirExists, fs, solverLog, memo, factory, model, job>>

\* np.save(self.filename, data); return data; self.data = <the returned array>;
\* a get_data caller then goes on to its own body
save_and_return ==
    /\ pc = "save"
    /\ LET g == cur.gen
           p == params[g]
       IN  /\ fs' = np_save(fs, filename(p), work)
           /\ data' = [data EXCEPT ![g] = work]
           /\ IF cur.caller = "get_data"
              THEN LET r == get_data_body(p, g, work, cur.om, cur.h0)
                   IN  /\ last' = r
                       /\ memo' = MemoStore(memo, <<g, cur.om, cur.h0>>, r)
              ELSE /\ last' = Ret("load_data", g, Flag(cur.can_generate), "ok")
                   /\ memo' = memo
    /\ pc' = "idle"
    /\ cur' = NoCur
    /\ work' = NoData
    /\ UNCHANGED <<constructed, params, dirExists, loc, solverLog, factory, model, job>>

(* ------------------------------ load_data ------------------------------ *)

load_data(g, can_generate) ==
    /\ pc = "idle"
    /\ g \in constructed
    /\ LET fn == filename(params[g])
       IN  IF ~path_exists(fs, fn)
           THEN IF ~MayGenerate(can_generate)
                THEN /\ last' = Ret("load_data", g, Flag(can_generate), "ValueError")
                     /\ solverLog' = <<>>
                     /\ UNCHANGED <<constructed, params, data, dirExists, fs, pc, cur, work, loc, memo, factory, model, job>>
                ELSE BeginGenerate(g, "load_data", can_generate, 0, NoneH0)
           ELSE /\ data' = [data EXCEPT ![g] = np_load(fs, fn)]
                /\ last' = Ret("load_data", g, Flag(can_generate), "ok")
                /\ solverLog' = <<>>
                /\ UNCHANGED <<constructed, params, dirExists, fs, pc, cur, work, loc, memo, factory, model, job>>

(* ------------------------------- get_data ------------------------------ *)

\* @lru_cache(maxsize=512) def get_data(self, om, h0)
get_data(g, om, h0) ==
    /\ pc = "idle"
    /\ g \in constructed
    /\ LET key == <<g, om, h0>>
           pos == MemoPos(memo, key, 1)
           p == params[g]
           fn == filename(p)
       IN  IF pos # 0
           THEN /\ memo' = MemoTouch(memo, pos)
                /\ last' = [ memo[pos].val EXCEPT !.ran = 0 ]
                /\ solverLog' = <<>>
                /\ UNCHANGED <<constructed, params, data, dirExists, fs, pc, cur, work, loc, factory, model, job>>
           ELSE IF data[g] = NoData /\ ~path_exists(fs, fn)
           THEN IF ~MayGenerate(get_data_can_generate)
                THEN /\ last' = Ret("get_data", g, <<om, h0>>, "ValueError")
                     /\ solverLog' = <<>>
                     /\ UNCHANGED <<constructed, params, data, dirExists, fs, pc, cur, work, loc, memo, factory, model, job>>
                ELSE BeginGenerate(g, "get_data", get_data_can_generate, om, h0)
           ELSE LET t == IF data[g] = NoData THEN np_load(fs, fn) ELSE data[g]
                    r == get_data_body(p, g, t, om, h0)
                IN  /\ data' = [data EXCEPT ![g] = t]
                    /\ last' = r
                    /\ memo' = MemoStore(memo, key, r)
                    /\ solverLog' = <<>>
                    /\ UNCHANGED <<constructed, params, dirExists, fs, pc, cur, work, loc, factory, model, job>>

\* a direct call self._interpolate(omch2, h0)
call_interpolate(g, omch2, h0) ==
    /\ pc = "idle"
    /\ g \in constructed
    /\ LET p == params[g]
           t == data[g]
       IN  last' =
             IF t = NoData THEN [ Ret("_interpolate", g, <<omch2, h0>>, "TypeError") EXCEPT !.ran = 1 ]
             ELSE IF InterpolateRaises(p, t, omch2, h0)
                  THEN [ Ret("_interpolate", g, <<omch2, h0>>, "IndexError") EXCEPT !.ran = 1 ]
             ELSE LET f == _interpolate(p, t, omch2, h0)
                  IN  [ Ret("_interpolate", g, <<omch2, h0>>, "ok") EXCEPT
                          !.den = f.den, !.vec = f.num, !.ran = 1 ]
    /\ solverLog' = <<>>
    /\ UNCHANGED <<constructed, params, data, dirExists, fs, pc, cur, work, loc, memo, factory, model, job>>

(* ------------------------ the rest of the machine ---------------------- *)

\* the cache file is removed from outside
EnvRemoveFile(fn) ==
    /\ path_exists(fs, fn)
    /\ fs' = [ n \in DOMAIN fs \ {fn} |-> fs[n] ]
    /\ UNCHANGED <<constructed, params, data, dirExists, pc, cur, work, loc, solverLog, memo, last, factory, model, job>>

\* another process running the same program with arguments c ends its own
\* _generate_data: it writes its table under its file name
EnvWriteFile(c) ==
    /\ fs' = np_save(fs, filename(c), GeneratedTable(c))
    /\ dirExists' = TRUE
    /\ UNCHANGED <<constructed, params, data, pc, cur, work, loc, solverLog, memo, last, factory, model, job>>

Next ==
    \/ \E g \in Gens, p \in Configs : Construct(g, p)
    \/ \E g \in Gens, cg \in BOOLEAN : load_data(g, cg)
    \/ \E g \in Gens, om \in OmArgs, h0 \in H0Args : get_data(g, om, h0)
    \/ camb_linear
    \/ camb_nonlinear
    \/ camb_fails
    \/ save_and_return
    \/ \E fn \in DOMAIN fs : EnvRemoveFile(fn)
    \/ \E c \in Configs : EnvWriteFile(c)

Spec == Init /\ [][Next]_vars

(* SpecInit: construction alone, over every argument tuple of ArgTuples *)

NextInit == \E g \in Gens, p \in ArgTuples : Construct(g, p)

SpecInit == Init /\ [][NextInit]_vars

(* SpecInterp: generators whose tables have been loaded from their cache   *)
(* files, queried through _interpolate                                     *)

InitInterp ==
    /\ constructed = Gens
    /\ params \in [Gens -> InterpConfigs]
    /\ data = [g \in Gens |-> GeneratedTable(params[g])]
    /\ fs = [ fn \in {filename(c) : c \in {params[g] : g \in Gens}} |->
                GeneratedTable(CHOOSE c \in InterpConfigs : filename(c) = fn) ]
    /\ dirExists = TRUE
    /\ pc = "idle"
    /\ cur = NoCur
    /\ work = NoData
    /\ loc = NoLoc
    /\ solverLog = <<>>
    /\ memo = <<>>
    /\ last = Ret("load_data", "g2", Flag(FALSE), "ok")
    /\ factory = <<>>
    /\ model = NoModel
    /\ job = NoJob

NextInterp == \E g \in Gens, omch2 \in Omch2Args, h0 \in H0Values : call_interpolate(g, omch2, h0)

SpecInterp == InitInterp /\ [][NextInterp]_vars

(* SpecFactory: generators obtained through getCambGenerator              *)

\* @lru_cache(maxsize=32) def getCambGenerator(...): return CambGenerator(...)
getCambGenerator(call) ==
    /\ pc = "idle"
    /\ LET key == FactoryKey(call)
           pos == MemoPos(factory, key, 1)
       IN  IF pos # 0
           THEN /\ factory' = MemoTouch(factory, pos)
                /\ last' = Ret("getCambGenerator", factory[pos].gen, call, "ok")
                /\ UNCHANGED <<constructed, params, data, solverLog>>
           ELSE \E g \in Gens \ constructed :
                /\ constructed' = constructed \cup {g}
                /\ params' = [params EXCEPT ![g] = Resolve(call)]
                /\ data' = [data EXCEPT ![g] = NoData]
                /\ solverLog' = <<>>
                /\ factory' = FactoryStore(factory, key, g)
                /\ last' = Ret("getCambGenerator", g, call, "ok")
    /\ UNCHANGED <<dirExists, fs, pc, cur, work, loc, memo, model, job>>

NextFactory == \E call \in Calls : getCambGenerator(call)

SpecFactory == Init /\ [][NextFactory]_vars

(* SpecModel: one CorrelationPolynomial, constructed and given datasets    *)

\* CorrelationPolynomial(smooth_type, fix_params, smooth): an unknown
\* smooth_type ends in exit(0) before anything is declared
ConstructModel(smooth_type, fix_params, smooth) ==
    /\ ~model.exit.done
    /\ ~model.exists
    /\ IF ~validate_smooth_method(smooth_type)
       THEN /\ model' = [model EXCEPT !.exit = sys_exit(ExitStatus)]
            /\ last' = Ret("CorrelationPolynomial", "none", <<smooth_type>>, "SystemExit")
       ELSE /\ model' = [NoModel EXCEPT !.exists = TRUE,
                                        !.smooth_type = Lower(smooth_type),
                                        !.params = DeclaredParams,
                                        !.fixed = fix_params,
                                        !.smooth = smooth]
            /\ last' = Ret("CorrelationPolynomial", "none", <<smooth_type>>, "ok")
    /\ UNCHANGED <<constructed, params, data, dirExists, fs, pc, cur, work, loc, solverLog, memo, factory, job>>

\* the base class's set_data: keeps the datasets
Model_set_data(m, c) == [m EXCEPT !.data = c, !.calls = @ + 1]

\* set_data(data) with c = data[0]["cosmology"]
set_data(c) ==
    /\ ~model.exit.done
    /\ model.exists
    /\ model.calls < MaxSetData
    /\ LET m == Model_set_data(model, c)
       IN  IF m.cosmology # c
           THEN model' = [m EXCEPT !.recon_smoothing_scale = c.reconsmoothscale,
                                   !.camb = CambFor(c),
                                   !.PT = PTFor(c, m.smooth_type, c.reconsmoothscale),
                                   !.fetches = @ + 1,
                                   !.pk2xi = m.fetches + 1,
                                   !.om_default = c.om]
           ELSE model' = m
    /\ last' = Ret("set_data", "none", <<c.ob, c.z, c.ns>>, "ok")
    /\ UNCHANGED <<constructed, params, data, dirExists, fs, pc, cur, work, loc, solverLog, memo, factory, job>>

\* @lru_cache(maxsize=1024) def compute_basic_power_spectrum(self, om); cached
\* tells whether the generator's cache file is there for get_data to load
compute_basic_power_spectrum(om, cached) ==
    /\ ~model.exit.done
    /\ model.exists
    /\ LET pos == MemoPos(model.spectra, om, 1)
           args == <<om, IF cached THEN 1 ELSE 0>>
       IN  IF pos # 0
           THEN /\ model' = [model EXCEPT !.spectra = MemoTouch(@, pos)]
                /\ last' = [ Ret("compute_basic_power_spectrum", "none", args, "ok") EXCEPT
                               !.vec = model.spectra[pos].val ]
           ELSE IF model.camb = <<>>
           THEN /\ model' = model
                /\ last' = Ret("compute_basic_power_spectrum", "none", args, "AttributeError")
           ELSE IF ~cached
           THEN /\ model' = model
                /\ last' = Ret("compute_basic_power_spectrum", "none", args, "ValueError")
           ELSE LET t == camb_get_data(model.camb, om)
                IN  IF Len(t) # UnpackTargets
                    THEN /\ model' = model
                         /\ last' = Ret("compute_basic_power_spectrum", "none", args, "ValueError: unpack")
                    ELSE LET v == BasicSpectrum(t[2], model.smooth_type, om)
                         IN  /\ model' = [model EXCEPT !.spectra =
                                            Append(IF Len(@) >= SpectrumMemoSize THEN Tail(@) ELSE @,
                                                   [key |-> om, val |-> v])]
                             /\ last' = [ Ret("compute_basic_power_spectrum", "none", args, "ok") EXCEPT
                                            !.vec = v ]
    /\ UNCHANGED <<constructed, params, data, dirExists, fs, pc, cur, work, loc, solverLog, memo, factory, job>>

NextModel ==
    \/ \E st \in SmoothTypes, fp \in FixParamsArgs, sm \in BOOLEAN : ConstructModel(st, fp, sm)
    \/ \E c \in Cosmologies : set_data(c)
    \/ \E om \in SpectrumOmArgs, cached \in BOOLEAN : compute_basic_power_spectrum(om, cached)

SpecModel == Init /\ [][NextModel]_vars

(* SpecJob: job scripts written into one directory, and their output       *)

\* write_jobscript_slurm(filename, name=None, num_tasks, delete)
write_jobscript_slurm(executable, num_tasks, delete) ==
    LET removed == IF delete /\ job.out.exists THEN NoDir ELSE job.out
        out == IF ~removed.exists THEN EmptyDir ELSE removed
        called == [ job EXCEPT !.q_dir = TRUE, !.out = out, !.before = job.out,
                               !.call = [executable |-> executable, num_tasks |-> num_tasks,
                                         delete |-> delete] ]
    IN  /\ IF IndexRaises(executable, DotPy)
           THEN job' = [ called EXCEPT !.outcome = "ValueError", !.ret = <<>> ]
           ELSE LET n == UpToDotPy(executable) \o DotQ
                    text == Template(DropLast3(executable), executable, num_tasks)
                IN  job' = [ called EXCEPT
                               !.scripts = { sc \in @ : sc.file # n } \cup {[file |-> n, text |-> text]},
                               !.outcome = "ok", !.ret = n ]
        /\ UNCHANGED <<constructed, params, data, dirExists, fs, pc, cur, work, loc, solverLog,
                       memo, last, factory, model>>

\* a submitted task writes its output file into out_files
TaskWritesOutput(f) ==
    /\ job.out.exists
    /\ f \notin job.out.files
    /\ job' = [ job EXCEPT !.out.files = @ \cup {f} ]
    /\ UNCHANGED <<constructed, params, data, dirExists, fs, pc, cur, work, loc, solverLog,
                   memo, last, factory, model>>

NextJob ==
    \/ \E e \in Executables, n \in 1..MaxTasks, d \in BOOLEAN : write_jobscript_slurm(e, n, d)
    \/ \E f \in {"o1", "o2"} : TaskWritesOutput(f)

SpecJob == Init /\ [][NextJob]_vars

(* ======================================================================= *)
(*                               properties                                *)
(* ======================================================================= *)

\* the table has the shape of p's grid and no cell is left at its zeros
FullTable(p, t) ==
    /\ Len(t) = p.om_resolution
    /\ \A i \in 1..Len(t) :
        /\ Len(t[i]) = p.h0_resolution
        /\ \A j \in 1..Len(t[i]) : Len(t[i][j]) = NChannels
    /\ Filled(t)

\* C1: when the cache file of the generator's fingerprint does not exist,
\* load_data(can_generate=False) raises (ValueError) and does not fall back to
\* generation: the call ends at once, no CAMB pass is made, no file is written
\* and self.data stays as it was (absent when it was absent).
C1_LoadWithoutGenerateFails ==
    [][ \A g \in Gens :
          (load_data(g, FALSE) /\ filename(params[g]) \notin DOMAIN fs)
            => /\ last' = Ret("load_data", g, Flag(FALSE), "ValueError")
               /\ pc' = "idle"
               /\ solverLog' = <<>>
               /\ fs' = fs
               /\ data' = data ]_vars

C1_Witness ==
    /\ pc = "idle"
    /\ last.op = "load_data" /\ last.args = Flag(FALSE) /\ last.outcome = "ValueError"
    /\ data[last.gen] = NoData
    /\ filename(params[last.gen]) \notin DOMAIN fs
    /\ solverLog = <<>>

\* C2: get_data loads a table that is not in memory with regeneration off: no
\* get_data call makes a CAMB pass or writes a file, generation only ever runs
\* on behalf of load_data(can_generate=True), and a get_data call on a
\* generator without table whose cache file is absent raises and returns nothing.
C2_GetDataNeverGenerates ==
    [][ /\ \A g \in Gens, om \in OmArgs, h0 \in H0Args :
            get_data(g, om, h0)
              => /\ pc' = "idle"
                 /\ solverLog' = <<>>
                 /\ fs' = fs
                 /\ (data[g] = NoData /\ filename(params[g]) \notin DOMAIN fs)
                      => /\ last' = Ret("get_data", g, <<om, h0>>, "ValueError")
                         /\ data' = data
        /\ (camb_linear \/ camb_nonlinear \/ save_and_return)
              => (cur.caller = "load_data" /\ cur.can_generate) ]_vars

C2_Witness ==
    /\ pc = "idle"
    /\ last.op = "get_data" /\ last.outcome = "ValueError" /\ last.den = 0
    /\ data[last.gen] = NoData
    /\ filename(params[last.gen]) \notin DOMAIN fs
    /\ solverLog = <<>>

\* C3: when the cache file is absent, load_data(can_generate=True) starts
\* _generate_data, and when that returns (CAMB raising nowhere) every cell has
\* had its two passes, the table is saved under the fingerprint's file name,
\* self.data equals the saved table, and the file exists.
C3_GenerateOnMiss ==
    [][ /\ \A g \in Gens :
            (load_data(g, TRUE) /\ filename(params[g]) \notin DOMAIN fs)
              => /\ pc' = "linear"
                 /\ cur'.gen = g
                 /\ work' = Zeros(params[g])
                 /\ data' = data /\ fs' = fs
        /\ (save_and_return /\ cur.caller = "load_data")
              => LET g == cur.gen
                     p == params[g]
                 IN  /\ filename(p) \in DOMAIN fs'
                     /\ fs'[filename(p)] = data'[g]
                     /\ FullTable(p, data'[g])
                     /\ data'[g] = GeneratedTable(p)
                     /\ Len(solverLog') = 2 * p.om_resolution * p.h0_resolution
                     /\ last' = Ret("load_data", g, Flag(TRUE), "ok")
                     /\ pc' = "idle" ]_vars

C3_Witness ==
    /\ pc = "idle"
    /\ last.op = "load_data" /\ last.args = Flag(TRUE) /\ last.outcome = "ok"
    /\ Len(solverLog) = 2 * params[last.gen].om_resolution * params[last.gen].h0_resolution
    /\ filename(params[last.gen]) \in DOMAIN fs
    /\ fs[filename(params[last.gen])] = data[last.gen]
    /\ FullTable(params[last.gen], data[last.gen])

\* C4: when the cache file of the fingerprint exists, load_data (either value
\* of can_generate) sets self.data to exactly the file's contents, makes no
\* CAMB pass and leaves the file alone; so it equals the table of any other
\* generator that holds what the file holds (the one that saved it).
C4_LoadExisting ==
    [][ \A g \in Gens, cg \in BOOLEAN :
          (load_data(g, cg) /\ filename(params[g]) \in DOMAIN fs)
            => /\ data'[g] = fs[filename(params[g])]
               /\ fs' = fs
               /\ solverLog' = <<>>
               /\ pc' = "idle"
               /\ last' = Ret("load_data", g, Flag(cg), "ok")
               /\ \A h \in Gens \ {g} :
                    /\ data'[h] = data[h]
                    /\ data[h] = fs[filename(params[g])] => data'[g] = data'[h] ]_vars

\* a generator has loaded, without any CAMB pass, the table another generator
\* of the same fingerprint computed (not the one it would compute itself)
C4_Witness ==
    /\ pc = "idle"
    /\ last.op = "load_data" /\ last.outcome = "ok" /\ solverLog = <<>>
    /\ \E h \in constructed \ {last.gen} :
        /\ filename(params[h]) = filename(params[last.gen])
        /\ data[h] = GeneratedTable(params[h])
        /\ data[last.gen] = data[h]
        /\ data[last.gen] # GeneratedTable(params[last.gen])
        /\ fs[filename(params[h])] = data[h]

\* C5: no partial table is visible: self.data is None or a full table, and a
\* cache file that exists holds a full table; while _generate_data is between
\* cells its array is neither in self.data nor on disk.
C5_NoPartialTable ==
    /\ \A g \in Gens : data[g] = NoData \/ FullTable(params[g], data[g])
    /\ \A fn \in DOMAIN fs : Filled(fs[fn]) /\ fs[fn] # NoData
    /\ (pc \in {"linear", "nonlinear"})
         => /\ ~Filled(work)
            /\ data[cur.gen] # work
            /\ \A fn \in DOMAIN fs : fs[fn] # work

\* generation is under way with some cells assigned and others not, and the
\* generator has no table and no file
C5_Witness ==
    /\ pc = "linear"
    /\ cur.n > 1
    /\ work # Zeros(params[cur.gen])
    /\ ~Filled(work)
    /\ data[cur.gen] = NoData
    /\ filename(params[cur.gen]) \notin DOMAIN fs

\* C6: once self.data is populated no later step changes it.
C6_TableImmutable ==
    [][ \A g \in Gens : data[g] # NoData => data'[g] = data[g] ]_vars

\* the query lies outside the grid on some axis
OutOfGrid(p, omch2, h0) ==
    \/ omch2 < omch2s(p, 0)
    \/ omch2 > omch2s(p, p.om_resolution - 1)
    \/ /\ p.h0_resolution > 1
       /\ (h0 < h0s(p, 0) \/ h0 > h0s(p, p.h0_resolution - 1))

\* C7: an _interpolate query outside the grid range, below or above, returns
\* a result and never raises.
C7_OutOfGridNeverRaises ==
    (last.op = "_interpolate" /\ OutOfGrid(params[last.gen], last.args[1], last.args[2]))
        => last.outcome = "ok"

C9_SingleH0IgnoresH0 ==
    (last.op = "_interpolate" /\ params[last.gen].h0_resolution = 1)
      => LET p == params[last.gen]
             t == data[last.gen]
             omch2 == last.args[1]
             h0 == last.args[2]
             oi == omch2_index(p, omch2)
             x == Frac(oi)
         IN  /\ \A n \in 1..Len(Reads(p, omch2, h0)) : Reads(p, omch2, h0)[n][2] = 0
             /\ IF IndexOk(Len(t), Floor(oi)) /\ IndexOk(Len(t), Ceil(oi))
                THEN /\ last.outcome = "ok"
                     /\ last.den = oi.den
                     /\ last.vec =
                          [ k \in 1..NChannels |->
                              (oi.den - x) * At(t, Floor(oi), 0)[k] + x * At(t, Ceil(oi), 0)[k] ]
                     /\ \A h2 \in H0Values :
                          _interpolate(p, t, omch2, h2) = _interpolate(p, t, omch2, h0)
                ELSE last.outcome = "IndexError"

\* a query strictly between two nodes, at an h0 other than the generator's own
C9_Witness ==
    /\ last.op = "_interpolate" /\ last.outcome = "ok"
    /\ params[last.gen].h0_resolution = 1
    /\ last.args[2] # params[last.gen].h0
    /\ Frac(omch2_index(params[last.gen], last.args[1])) > 0

\* C10: two generators have the same filename_unique if and only if they were
\* constructed with identical redshift, om_resolution, h0_resolution, h0, ob, ns.
C10_FingerprintIffFields ==
    \A g \in constructed, h \in constructed :
        (filename_unique(params[g]) = filename_unique(params[h])) <=> (params[g] = params[h])

(* ------------------------------ the memo ------------------------------- *)

\* the key the last call was made with
LastKey == <<last.gen, last.args[1], last.args[2]>>

\* key has an entry in memo m
InMemo(m, key) == \E n \in 1..Len(m) : m[n].key = key

\* the value memo m holds for key
MemoValue(m, key) == m[CHOOSE n \in 1..Len(m) : m[n].key = key].val

\* a step in which a get_data call returned or raised
GetDataStep ==
    /\ pc = "idle" /\ pc' = "idle"
    /\ last'.op = "get_data"
    /\ (last' # last \/ memo' # memo \/ data' # data \/ solverLog' # solverLog)

C13_SolverFailurePropagates ==
    [][ (pc \in {"linear", "nonlinear"} /\ pc' = "idle") =>
          /\ last'.outcome = "CAMBError"
          /\ last'.op = cur.caller /\ last'.gen = cur.gen
          /\ cur' = NoCur
          /\ solverLog' = solverLog
          /\ fs' = fs
          /\ data' = data
      ]_vars

\* a generation failed part of the way: no table in memory, no file
C13_Witness ==
    /\ last.op = "load_data" /\ last.outcome = "CAMBError"
    /\ data[last.gen] = NoData
    /\ filename(params[last.gen]) \notin DOMAIN fs
    /\ Len(solverLog) > 0

\* the n-th solver pass of a generation over p's grid: cell (n-1) div 2 in
\* loop order, linear when n is odd
ExpectedPass(p, n) ==
    << ((n - 1) \div 2) \div p.h0_resolution,
       ((n - 1) \div 2) % p.h0_resolution,
       IF n % 2 = 1 THEN "NonLinear_none" ELSE "NonLinear_pk" >>

\* C14: the solver passes of a generation are, in order, for every cell of the
\* grid in loop order one pass with NonLinear_none and then one with
\* NonLinear_pk; a generation that reaches np.save has made exactly
\* 2 * om_resolution * h0_resolution passes
C14_TwoPassesPerCell ==
    Len(solverLog) > 0 =>
        LET p == params[IF pc # "idle" THEN cur.gen ELSE last.gen]
            passes == 2 * p.om_resolution * p.h0_resolution
        IN  /\ Len(solverLog) <= passes
            /\ \A n \in 1..Len(solverLog) : solverLog[n] = ExpectedPass(p, n)
            /\ (pc = "save" \/ (pc = "idle" /\ last.outcome = "ok")) => Len(solverLog) = passes

\* a generation over a grid of more than one cell has made all its passes
C14_Witness ==
    pc = "save" /\ Len(solverLog) = 2 * Len(CellOrder(params[cur.gen])) /\ Len(solverLog) > 2

(* ------------------------------ the layout ----------------------------- *)

\* C15 as claimed: a cell is the sound horizon followed by k_num linear and
\* k_num nonlinear values and nothing else, so the two returned slices cover
\* every channel after channel 0
C15_CellIsThreeParts ==
    \A g \in constructed : data[g] # NoData =>
        \A i \in 1..Len(data[g]) : \A j \in 1..Len(data[g][i]) :
            Len(data[g][i][j]) = 1 + 2 * KNum

\* C15: a cell has 1 + 3 * k_num channels: the sound horizon, the k_num linear
\* values of redshift row 2, the k_num nonlinear values of redshift row 1 and
\* the k_num nonlinear values of redshift row 2; get_data returns channel 0,
\* the k_num channels after it and the last k_num channels (both of redshift
\* row 2) and leaves the k_num channels in between unread
C15_CellLayout ==
    /\ \A g \in constructed : data[g] # NoData =>
          \E c \in Configs :
              /\ filename(c) = filename(params[g])
              /\ \A i \in 0..(c.om_resolution - 1) : \A j \in 0..(c.h0_resolution - 1) :
                    LET cp == CambPars(c, i, j)
                    IN  data[g][i + 1][j + 1] =
                            <<CambRdrag(cp)>> \o CambPk(cp, FALSE)[2]
                              \o CambPk(cp, TRUE)[1] \o CambPk(cp, TRUE)[2]
    /\ (last.op = "get_data" /\ last.outcome = "ok" /\ last.ran = 1) =>
          LET p == params[last.gen]
              hv == H0OrDefault(p, last.args[2])
              f == _interpolate(p, data[last.gen], Omch2Of(p, last.args[1], hv), hv)
          IN  /\ Len(f.num) = 1 + 3 * KNum
              /\ last.rs = f.num[1]
              /\ last.lin = [k \in 1..KNum |-> f.num[1 + k]]
              /\ last.nl = [k \in 1..KNum |-> f.num[1 + 2 * KNum + k]]

\* get_data returned its three parts from a generated table
C15_Witness ==
    last.op = "get_data" /\ last.outcome = "ok" /\ last.ran = 1 /\ Len(last.nl) = KNum

(* ---------------------------- the directory ---------------------------- *)

\* a step in which a load_data call returned or raised without generating
LoadDataReturns ==
    /\ pc = "idle" /\ pc' = "idle"
    /\ last'.op = "load_data"
    /\ (last' # last \/ data' # data \/ solverLog' # solverLog)

\* C16 as claimed: once any load_data call has ended, the cache directory exists
C16_DirExistsAfterLoad == last.op = "load_data" => dirExists

\* C16: the directory is created on entering _generate_data: it exists while a
\* generation runs and after a load_data that generated, whether that ended
\* well or in the solver's exception; a load_data that returns or raises
\* without generating leaves the directory as it was
C16_DirCreatedByGeneration ==
    /\ [](/\ pc # "idle" => dirExists
          /\ (last.op = "load_data" /\ last.outcome \in {"ok", "CAMBError"}) => dirExists)
    /\ [][ LoadDataReturns => dirExists' = dirExists ]_vars

\* a generation has begun where no cache file was ever left
C16_Witness ==
    pc = "linear" /\ cur.caller = "load_data" /\ cur.n = 1 /\ dirExists /\ fs = NoFiles

(* ----------------------------- construction ---------------------------- *)

\* C17: a step that constructs a generator leaves that generator's data None,
\* and the files, the directory, the memo, the tables of the other generators
\* and the solver untouched
C17_ConstructionIsLazy ==
    [][ constructed' # constructed =>
          /\ \A g \in constructed' \ constructed : data'[g] = NoData
          /\ \A h \in constructed : data'[h] = data[h]
          /\ fs' = fs
          /\ dirExists' = dirExists
          /\ memo' = memo
          /\ solverLog' = <<>>
          /\ pc' = "idle"
      ]_vars

\* a generator was constructed while its cache file existed, and has no table
C17_Witness ==
    /\ last.op = "__init__"
    /\ filename(params[last.gen]) \in DOMAIN fs
    /\ data[last.gen] = NoData

(* ------------------------- CorrelationPolynomial ----------------------- *)

\* C18 as claimed: constructing a CorrelationPolynomial with a smoothing name
\* that is not a known method ends in an error: the constructor does not
\* return, and the process does not end with the success status 0; nothing
\* is declared or created for the model
C18_UnknownSmoothFails ==
    (last.op = "CorrelationPolynomial" /\ Lower(last.args[1]) \notin RecognizedSmooth) =>
        /\ last.outcome # "ok"
        /\ ~(model.exit.done /\ model.exit.status = 0)
        /\ model.params = {} /\ model.camb = <<>> /\ model.PT = <<>> /\ model.pk2xi = 0

(* ---------------------------- getCambGenerator ------------------------- *)

\* a step in which a getCambGenerator call returned
FactoryStep ==
    /\ last'.op = "getCambGenerator"
    /\ (last' # last \/ factory' # factory)

C20_SameCosmologyNoRebuild ==
    [][ (model'.calls = model.calls + 1 /\ model.calls > 0 /\ model'.data = model.data) =>
          /\ model'.camb = model.camb
          /\ model'.PT = model.PT
          /\ model'.pk2xi = model.pk2xi
          /\ model'.om_default = model.om_default
          /\ model'.fetches = model.fetches
      ]_vars

\* C21 as claimed: a compute_basic_power_spectrum(om) call on a model that
\* set_data has given a generator whose table can be loaded returns the
\* smoothed spectrum and the wiggle ratio of the linear spectrum that the
\* generator now installed gives for om
C21_SpectrumFromCurrentGenerator ==
    (/\ last.op = "compute_basic_power_spectrum"
     /\ model.camb # <<>>
     /\ last.args[2] = 1) =>
        /\ last.outcome = "ok"
        /\ last.vec = BasicSpectrum(camb_get_data(model.camb, last.args[1])[2],
                                    model.smooth_type, last.args[1])

(* --------------------------- write_jobscript_slurm --------------------- *)

\* the executable without its .py suffix
WithoutDotPy(executable) ==
    IF Len(executable) >= 3 /\ SubSeq(executable, Len(executable) - 2, Len(executable)) = DotPy
    THEN SubSeq(executable, 1, Len(executable) - 3)
    ELSE executable

\* a step in which write_jobscript_slurm changed something
WriteStep == job' # job /\ job'.out.files \subseteq job.out.files

\* C22 as claimed: once write_jobscript_slurm has returned, job_files and
\* out_files exist and the script is at the returned path, job_files/<executable
\* without .py>.q, running the array tasks 1..num_tasks with the indices
\* 0..num_tasks-1; the call leaves the contents of an existing out_files as
\* they are when delete is False and leaves out_files empty when it is True
C22_JobScriptWritten ==
    /\ [](job.outcome = "ok" =>
            /\ job.q_dir /\ job.out.exists
            /\ job.ret = WithoutDotPy(job.call.executable) \o DotQ
            /\ \E sc \in job.scripts :
                  /\ sc.file = job.ret
                  /\ sc.text.array = 1..job.call.num_tasks
                  /\ TaskParams(sc.text) = 0..(job.call.num_tasks - 1))
    /\ [][ (WriteStep /\ job'.outcome = "ok") =>
             /\ (~job'.call.delete /\ job.out.exists) => job'.out = job.out
             /\ job'.call.delete => job'.out = EmptyDir
       ]_vars

====
